---- MODULE Spec2Model ----
(***************************************************************************)
(* HarryTix frontend: the Sensitivity calculator (both versions kept in    *)
(* pages/Sensitivity.tsx), the Dashboard per-set rows, product groups and  *)
(* best-platform badge, the InventoryTable footer and the polling of the   *)
(* query hooks, as a state machine over the fetched comparison data, the   *)
(* entered selling prices, the inventory items and the query timers.       *)
(*                                                                         *)
(* Numbers.  JavaScript numbers are modelled as integers counting          *)
(* 1/Unit of a dollar (fixed point).  Sums, differences and products by a  *)
(* quantity are exact; a product by (1 - fee) and a quotient by (1 - fee)  *)
(* are rounded to the nearest 1/Unit, which stands for the rounding of the *)
(* floating-point operation.  null is Null == <<>>, a number n is <<n>>.   *)
(* Strings are sequences of one-character strings.                         *)
(***************************************************************************)
EXTENDS Integers, Sequences, FiniteSets, TLC

VARIABLES
    data,           \* useComparison().data: Null while loading, else <<ComparisonData>>
    sellingPrices,  \* useState<Record<string,string>>: set_name -> entered text
    sens1,          \* what the first Sensitivity version computes on this render
    sens2,          \* what the second Sensitivity version computes on this render
    dash,           \* what the Dashboard computes on this render
    probe,          \* Null, or the rows computed for a set priced at its breakeven
    scale,          \* Null, or the rows computed for a set and for twice its quantity
    sinceFetch,     \* per query hook: milliseconds since its last fetch was issued
    inventory,      \* what InventoryTable renders
    history,        \* useQuery(['history']).data: Null until fetched, else <<HistoryResponse>>
    priceChart,     \* priceChartData as computed on this render of Analytics
    snapshotLog,    \* what the clicks on Take Snapshot have done so far, in order
    hookId,         \* per hook with an optional id: the id it is rendered with
    sent            \* the requests the hooks with an optional id have sent, in order

pageVars == <<data, sellingPrices, sens1, sens2, dash, probe, scale, sinceFetch, inventory>>
analyticsVars == <<history, priceChart, snapshotLog, hookId, sent>>
vars == <<data, sellingPrices, sens1, sens2, dash, probe, scale, sinceFetch, inventory,
          history, priceChart, snapshotLog, hookId, sent>>

----------------------------------------------------------------------------
(* Bounds of the model *)

MaxLen == 3         \* longest text typed into a price field
MaxProbeCents == 120  \* costs 0.00 .. MaxProbeCents/100 are tried at breakeven
MaxQty == 8         \* quantities 1 .. MaxQty are doubled

(* Fixed point *)
Unit == 10 * 100               \* model units per dollar (a tenth of a cent)
FeeUnit == 10 * 10             \* fee rates are in hundredths
Dollars(n) == n * Unit
Cents(n) == n * (Unit \div 100)

Null == <<>>
Some(n) == <<n>>
Val(x) == x[1]

\* JavaScript truthiness of a value of type number | null
Truthy(x) == x # Null /\ Val(x) # 0

\* a / b rounded to the nearest integer (half up)
RoundDiv(a, b) == (a + b \div 2) \div b

----------------------------------------------------------------------------
(* Configuration *)

VIVID_FEE == 10
\* the StubHub fee written as a percentage where a fraction is expected
STUBHUB_FEE_Percent == 15 * FeeUnit
STUBHUB_FEE == 15
\* the rates in use, and those a range check has passed before use: the rates
\* are literals of the page and no statement of the source checks them
FeeRates == {VIVID_FEE, STUBHUB_FEE}
ValidatedFees == {}

\* x * (1 - fee)
TimesOneMinus(x, fee) == RoundDiv(x * (FeeUnit - fee), FeeUnit)
\* x / (1 - fee)
OverOneMinus(x, fee) == RoundDiv(x * FeeUnit, FeeUnit - fee)

\* toLocaleString with no fraction digits: the nearest whole dollar, a half
\* going away from zero
WholeDollars(x) ==
    IF x >= 0 THEN (x + Unit \div 2) \div Unit ELSE -((Unit \div 2 - x) \div Unit)

\* formatCurrency: '-' for null, else '$' and the whole dollars
formatCurrency(value) ==
    IF value = Null THEN <<"-">> ELSE <<"$", WholeDollars(Val(value))>>

\* `${x >= 0 ? '+' : ''}${formatCurrency(x)}`
Signed(x) == (IF x >= 0 THEN <<"+">> ELSE <<>>) \o formatCurrency(Some(x))

----------------------------------------------------------------------------
(* Text of a price field and parseFloat *)

Chars == {"0", "7", "-"}
IsDigit(c) == c \in {"0", "7"}
DigitVal(c) == IF c = "7" THEN 7 ELSE 0

RECURSIVE ParseDigits(_, _, _)
ParseDigits(s, i, acc) ==
    IF i > Len(s) \/ ~IsDigit(s[i]) THEN acc
    ELSE ParseDigits(s, i + 1, acc * 10 + DigitVal(s[i]))

\* parseFloat on the texts over Chars: an optional sign, then the longest run
\* of digits; NaN when no digit follows; trailing characters are ignored.
parseFloat(s) ==
    LET neg == Len(s) >= 1 /\ s[1] = "-"
        start == IF neg THEN 2 ELSE 1
        mag == ParseDigits(s, start, 0)
    IN  IF start > Len(s) \/ ~IsDigit(s[start])
        THEN [isNaN |-> TRUE, num |-> 0]
        ELSE [isNaN |-> FALSE, num |-> Dollars(IF neg THEN -mag ELSE mag)]

\* getPrice / getSellingPrice (both versions have the same body)
getPrice(sp, setName) ==
    IF setName \notin DOMAIN sp \/ sp[setName] = <<>> THEN Null
    ELSE LET num == parseFloat(sp[setName])
         IN  IF num.isNaN THEN Null ELSE Some(num.num)

----------------------------------------------------------------------------
(* Sensitivity, first version *)

\* Totals1Step with the cost added inside if (price)
Totals1Step_CostWhenPriced(acc, set, sp) ==
    LET price == getPrice(sp, set.set_name)
    IN  IF Truthy(price)
        THEN [totalCost |-> acc.totalCost + set.cost_per_ticket * set.quantity,
              totalVividProfit |-> acc.totalVividProfit
                    + (TimesOneMinus(Val(price), VIVID_FEE) - set.cost_per_ticket)
                        * set.quantity,
              totalStubHubProfit |-> acc.totalStubHubProfit
                    + (TimesOneMinus(Val(price), STUBHUB_FEE) - set.cost_per_ticket)
                        * set.quantity]
        ELSE acc

\* Totals1Step with = in place of += on the profits
Totals1Step_Overwrite(acc, set, sp) ==
    LET price == getPrice(sp, set.set_name)
        cost == acc.totalCost + set.cost_per_ticket * set.quantity
    IN  IF Truthy(price)
        THEN [totalCost |-> cost,
              totalVividProfit |->
                    (TimesOneMinus(Val(price), VIVID_FEE) - set.cost_per_ticket)
                        * set.quantity,
              totalStubHubProfit |->
                    (TimesOneMinus(Val(price), STUBHUB_FEE) - set.cost_per_ticket)
                        * set.quantity]
        ELSE [acc EXCEPT !.totalCost = cost]

\* one turn of the forEach that accumulates the totals
Totals1Step(acc, set, sp) ==
    LET price == getPrice(sp, set.set_name)
        cost == acc.totalCost + set.cost_per_ticket * set.quantity
    IN  IF Truthy(price)
        THEN LET vividReceive == TimesOneMinus(Val(price), VIVID_FEE)
                 stubhubReceive == TimesOneMinus(Val(price), STUBHUB_FEE)
             IN  [totalCost |-> cost,
                  totalVividProfit |-> acc.totalVividProfit
                        + (vividReceive - set.cost_per_ticket) * set.quantity,
                  totalStubHubProfit |-> acc.totalStubHubProfit
                        + (stubhubReceive - set.cost_per_ticket) * set.quantity]
        ELSE [acc EXCEPT !.totalCost = cost]

RECURSIVE Totals1From(_, _, _, _)
Totals1From(sets, sp, i, acc) ==
    IF i > Len(sets) THEN acc
    ELSE Totals1From(sets, sp, i + 1, Totals1Step(acc, sets[i], sp))

Totals1(d, sp) ==
    LET zero == [totalCost |-> 0, totalVividProfit |-> 0, totalStubHubProfit |-> 0]
    IN  IF d = Null THEN zero ELSE Totals1From(Val(d).sets, sp, 1, zero)

\* one row of the table
\* Row1 adding the quantity where it multiplies by it
Row1_PlusQuantity(set, price) ==
    LET vividReceive == IF Truthy(price)
                        THEN Some(TimesOneMinus(Val(price), VIVID_FEE)) ELSE Null
        stubhubReceive == IF Truthy(price)
                          THEN Some(TimesOneMinus(Val(price), STUBHUB_FEE)) ELSE Null
        vividProfit == IF Truthy(vividReceive)
                       THEN Some((Val(vividReceive) - set.cost_per_ticket) + set.quantity)
                       ELSE Null
        stubhubProfit == IF Truthy(stubhubReceive)
                         THEN Some((Val(stubhubReceive) - set.cost_per_ticket) + set.quantity)
                         ELSE Null
    IN  [set_name |-> set.set_name, price |-> price,
         vividReceive |-> vividReceive, stubhubReceive |-> stubhubReceive,
         vividProfit |-> vividProfit, stubhubProfit |-> stubhubProfit]

Row1(set, price) ==
    LET vividReceive == IF Truthy(price)
                        THEN Some(TimesOneMinus(Val(price), VIVID_FEE)) ELSE Null
        stubhubReceive == IF Truthy(price)
                          THEN Some(TimesOneMinus(Val(price), STUBHUB_FEE)) ELSE Null
        vividProfit == IF Truthy(vividReceive)
                       THEN Some((Val(vividReceive) - set.cost_per_ticket) * set.quantity)
                       ELSE Null
        stubhubProfit == IF Truthy(stubhubReceive)
                         THEN Some((Val(stubhubReceive) - set.cost_per_ticket) * set.quantity)
                         ELSE Null
    IN  [set_name |-> set.set_name, price |-> price,
         vividReceive |-> vividReceive, stubhubReceive |-> stubhubReceive,
         vividProfit |-> vividProfit, stubhubProfit |-> stubhubProfit]

\* the TOTAL row and the Total Cost note
Shown1(totals) ==
    [totalVividProfit |-> IF totals.totalVividProfit # 0
                          THEN Signed(totals.totalVividProfit) ELSE <<"-">>,
     totalStubHubProfit |-> IF totals.totalStubHubProfit # 0
                            THEN Signed(totals.totalStubHubProfit) ELSE <<"-">>,
     totalCost |-> formatCurrency(Some(totals.totalCost))]

Render1(d, sp) ==
    LET totals == Totals1(d, sp)
    IN  [totals |-> totals,
         rows |-> IF d = Null THEN <<>>
                  ELSE [i \in 1..Len(Val(d).sets) |->
                          Row1(Val(d).sets[i], getPrice(sp, Val(d).sets[i].set_name))],
         shown |-> IF d = Null THEN Null ELSE Some(Shown1(totals))]

----------------------------------------------------------------------------
(* Sensitivity, second version *)

Totals2Step(acc, set, sp) ==
    LET price == getPrice(sp, set.set_name)
        base == [acc EXCEPT !.totalCost = @ + set.cost_per_ticket * set.quantity,
                            !.totalTickets = @ + set.quantity]
    IN  IF Truthy(price)
        THEN [base EXCEPT
                !.totalVividRevenue =
                    @ + TimesOneMinus(Val(price), VIVID_FEE) * set.quantity,
                !.totalStubHubRevenue =
                    @ + TimesOneMinus(Val(price), STUBHUB_FEE) * set.quantity]
        ELSE base

RECURSIVE Totals2From(_, _, _, _)
Totals2From(sets, sp, i, acc) ==
    IF i > Len(sets) THEN acc
    ELSE Totals2From(sets, sp, i + 1, Totals2Step(acc, sets[i], sp))

calculateTotals(d, sp) ==
    IF d = Null THEN Null
    ELSE LET acc == Totals2From(Val(d).sets, sp, 1,
                        [totalCost |-> 0, totalTickets |-> 0,
                         totalVividRevenue |-> 0, totalStubHubRevenue |-> 0])
         IN  Some([totalCost |-> acc.totalCost,
                   totalTickets |-> acc.totalTickets,
                   totalVividRevenue |-> acc.totalVividRevenue,
                   totalStubHubRevenue |-> acc.totalStubHubRevenue,
                   totalVividProfit |-> acc.totalVividRevenue - acc.totalCost,
                   totalStubHubProfit |-> acc.totalStubHubRevenue - acc.totalCost])

\* Row2 taking the profit from the gross price, before the fee
Row2_ProfitBeforeFee(set, sellPrice) ==
    LET vividProfitPer == IF Truthy(sellPrice)
                          THEN Some(Val(sellPrice) - set.cost_per_ticket) ELSE Null
        stubhubProfitPer == vividProfitPer
    IN  [set_name |-> set.set_name, price |-> sellPrice,
         vividReceive |-> IF Truthy(sellPrice)
                          THEN Some(TimesOneMinus(Val(sellPrice), VIVID_FEE)) ELSE Null,
         stubhubReceive |-> IF Truthy(sellPrice)
                            THEN Some(TimesOneMinus(Val(sellPrice), STUBHUB_FEE))
                            ELSE Null,
         vividProfitPer |-> vividProfitPer, stubhubProfitPer |-> stubhubProfitPer,
         vividTotalProfit |-> IF Truthy(vividProfitPer)
                              THEN Some(Val(vividProfitPer) * set.quantity) ELSE Null,
         stubhubTotalProfit |-> IF Truthy(stubhubProfitPer)
                                THEN Some(Val(stubhubProfitPer) * set.quantity)
                                ELSE Null]

Row2(set, sellPrice) ==
    LET vividReceive == IF Truthy(sellPrice)
                        THEN Some(TimesOneMinus(Val(sellPrice), VIVID_FEE)) ELSE Null
        stubhubReceive == IF Truthy(sellPrice)
                          THEN Some(TimesOneMinus(Val(sellPrice), STUBHUB_FEE)) ELSE Null
        vividProfitPer == IF Truthy(vividReceive)
                          THEN Some(Val(vividReceive) - set.cost_per_ticket) ELSE Null
        stubhubProfitPer == IF Truthy(stubhubReceive)
                            THEN Some(Val(stubhubReceive) - set.cost_per_ticket) ELSE Null
        vividTotalProfit == IF Truthy(vividProfitPer)
                            THEN Some(Val(vividProfitPer) * set.quantity) ELSE Null
        stubhubTotalProfit == IF Truthy(stubhubProfitPer)
                              THEN Some(Val(stubhubProfitPer) * set.quantity) ELSE Null
    IN  [set_name |-> set.set_name, price |-> sellPrice,
         vividReceive |-> vividReceive, stubhubReceive |-> stubhubReceive,
         vividProfitPer |-> vividProfitPer, stubhubProfitPer |-> stubhubProfitPer,
         vividTotalProfit |-> vividTotalProfit,
         stubhubTotalProfit |-> stubhubTotalProfit]

\* Breakeven with * in place of /
Breakeven_Times(set) ==
    [set_name |-> set.set_name,
     vividBreakeven |-> TimesOneMinus(set.cost_per_ticket, VIVID_FEE),
     stubhubBreakeven |-> TimesOneMinus(set.cost_per_ticket, STUBHUB_FEE)]

\* one breakeven card
Breakeven(set) ==
    [set_name |-> set.set_name,
     vividBreakeven |-> OverOneMinus(set.cost_per_ticket, VIVID_FEE),
     stubhubBreakeven |-> OverOneMinus(set.cost_per_ticket, STUBHUB_FEE)]

\* the summary cards
Shown2(totals) ==
    [totalTickets |-> totals.totalTickets,
     totalCost |-> formatCurrency(Some(totals.totalCost)),
     totalVividProfit |-> IF totals.totalVividProfit # 0
                          THEN formatCurrency(Some(totals.totalVividProfit))
                          ELSE <<"-">>,
     totalStubHubProfit |-> IF totals.totalStubHubProfit # 0
                            THEN formatCurrency(Some(totals.totalStubHubProfit))
                            ELSE <<"-">>]

Render2(d, sp) ==
    LET totals == calculateTotals(d, sp)
    IN  [totals |-> totals,
         cards |-> IF totals = Null THEN Null ELSE Some(Shown2(Val(totals))),
         rows |-> IF d = Null THEN <<>>
                  ELSE [i \in 1..Len(Val(d).sets) |->
                          Row2(Val(d).sets[i], getPrice(sp, Val(d).sets[i].set_name))],
         breakeven |-> IF d = Null THEN <<>>
                       ELSE [i \in 1..Len(Val(d).sets) |-> Breakeven(Val(d).sets[i])]]

----------------------------------------------------------------------------
(* Dashboard *)

\* BestPlatformBadge labelling the other platform
BestPlatformBadge_Other(platform, vividReceive, stubhubReceive) ==
    IF platform = Null THEN [label |-> "-", class |-> "badge-neutral", diff |-> 0]
    ELSE LET isVivid == Val(platform) = "Vivid"
         IN  [label |-> IF isVivid THEN "StubHub" ELSE "Vivid",
              class |-> IF isVivid THEN "badge-vivid" ELSE "badge-stubhub",
              diff |-> 0]

\* BestPlatformBadge: the label, its colour class and the difference shown
BestPlatformBadge(platform, vividReceive, stubhubReceive) ==
    IF platform = Null THEN [label |-> "-", class |-> "badge-neutral", diff |-> 0]
    ELSE LET isVivid == Val(platform) = "Vivid"
             d == Val(vividReceive) - Val(stubhubReceive)
             diff == IF Truthy(vividReceive) /\ Truthy(stubhubReceive)
                     THEN (IF d < 0 THEN -d ELSE d) ELSE 0
         IN  [label |-> Val(platform),
              class |-> IF isVivid THEN "badge-vivid" ELSE "badge-stubhub",
              diff |-> diff]

\* the Best column of the Analytics per-set table
BestColumn(set) ==
    IF set.best_platform # Null THEN Some(Val(set.best_platform)) ELSE Null

DashRow(set) ==
    LET profitPerTicket == IF Truthy(set.vivid_you_receive)
                           THEN Some(Val(set.vivid_you_receive) - set.cost_per_ticket)
                           ELSE Null
        totalProfit == IF Truthy(profitPerTicket)
                       THEN Some(Val(profitPerTicket) * set.quantity) ELSE Null
    IN  [set_name |-> set.set_name,
         vivid_you_receive |-> set.vivid_you_receive,
         profitPerTicket |-> profitPerTicket, totalProfit |-> totalProfit,
         badge |-> BestPlatformBadge(set.best_platform, set.vivid_you_receive,
                                     set.stubhub_you_receive),
         best |-> BestColumn(set)]

\* a section name is the sequence of its characters
UpperCase ==
    [a |-> "A", b |-> "B", c |-> "C", d |-> "D", e |-> "E", f |-> "F", g |-> "G",
     h |-> "H", i |-> "I", j |-> "J", k |-> "K", l |-> "L", m |-> "M", n |-> "N",
     o |-> "O", p |-> "P", q |-> "Q", r |-> "R", s |-> "S", t |-> "T", u |-> "U",
     v |-> "V", w |-> "W", x |-> "X", y |-> "Y", z |-> "Z"]
LowerCase == DOMAIN UpperCase
RECURSIVE toUpperCase(_)
toUpperCase(str) ==
    IF str = <<>> THEN <<>>
    ELSE <<IF Head(str) \in LowerCase THEN UpperCase[Head(str)] ELSE Head(str)>>
            \o toUpperCase(Tail(str))
includes(str, sub) ==
    \E i \in 0..(Len(str) - Len(sub)) : SubSeq(str, i + 1, i + Len(sub)) = sub

GroupNames == <<"GA / Pit", "Lower Bowl (100s)", "Upper Bowl (200s)">>

\* a grouping that tests for the upper bowl before GA and PIT
GroupOf_UpperFirst(set) ==
    LET section == toUpperCase(set.section)
    IN  IF includes(section, <<"2", "0", "0">>)
           \/ includes(section, <<"S", "E", "C", "T", "I", "O", "N", " ", "2">>)
        THEN "Upper Bowl (200s)"
        ELSE IF includes(section, <<"G", "A">>) \/ includes(section, <<"P", "I", "T">>)
        THEN "GA / Pit"
        ELSE "Lower Bowl (100s)"

\* the group a set is pushed to
GroupOf(set) ==
    LET section == toUpperCase(set.section)
    IN  IF includes(section, <<"G", "A">>) \/ includes(section, <<"P", "I", "T">>)
        THEN "GA / Pit"
        ELSE IF includes(section, <<"2", "0", "0">>)
                \/ includes(section, <<"S", "E", "C", "T", "I", "O", "N", " ", "2">>)
        THEN "Upper Bowl (200s)"
        ELSE "Lower Bowl (100s)"

DateNames == <<"Aug 28", "Sept 2", "Sept 18", "Sept 19", "Sept 25",
               "Oct 9", "Oct 17", "Oct 31">>
dateOrder ==
    [date \in {DateNames[k] : k \in 1..Len(DateNames)} |->
        CHOOSE k \in 1..Len(DateNames) : DateNames[k] = date]
\* dateOrder[date] || 99
DateKey(date) == IF date \in DOMAIN dateOrder THEN dateOrder[date] ELSE 99

\* groups left in the order the sets were pushed
SortByDate_Unsorted(group) == group

\* group.sort by date key: stable, ascending
RECURSIVE SortByDate(_)
SortByDate(group) ==
    IF group = <<>> THEN <<>>
    ELSE LET rest == SortByDate(SubSeq(group, 1, Len(group) - 1))
             last == group[Len(group)]
             k == Cardinality({i \in 1..Len(rest) :
                                 DateKey(rest[i].date) <= DateKey(last.date)})
         IN  SubSeq(rest, 1, k) \o <<last>> \o SubSeq(rest, k + 1, Len(rest))

\* data.sets.forEach: each set is pushed to the end of its group
RECURSIVE PushAll(_, _)
PushAll(groups, sets) ==
    IF sets = <<>> THEN groups
    ELSE PushAll([groups EXCEPT ![GroupOf(Head(sets))] = Append(@, Head(sets))],
                 Tail(sets))

\* the groups, filled in the order of data.sets and then each sorted by date
ProductGroups(sets) ==
    LET empty == [g \in {GroupNames[k] : k \in 1..Len(GroupNames)} |-> <<>>]
        pushed == PushAll(empty, sets)
    IN  [g \in DOMAIN pushed |-> SortByDate(pushed[g])]

\* reduce((sum, x) => sum + x, 0) over a sequence of numbers
RECURSIVE Reduce(_)
Reduce(terms) ==
    IF terms = <<>> THEN 0
    ELSE Reduce(SubSeq(terms, 1, Len(terms) - 1)) + terms[Len(terms)]

\* the term a set adds to groupProfit, summed from per-set whole dollars
GroupProfitTerm_Rounded(set) ==
    IF Truthy(set.vivid_you_receive)
    THEN Dollars(WholeDollars((Val(set.vivid_you_receive) - set.cost_per_ticket)
                                 * set.quantity))
    ELSE 0

\* the term a set adds to groupProfit
GroupProfitTerm(set) ==
    IF Truthy(set.vivid_you_receive)
    THEN (Val(set.vivid_you_receive) - set.cost_per_ticket) * set.quantity
    ELSE 0

\* one product group: nothing for an empty group, else header and rows
GroupView(groupName, sets) ==
    IF Len(sets) = 0 THEN Null
    ELSE LET groupQty == Reduce([i \in 1..Len(sets) |-> sets[i].quantity])
             groupCost == Reduce([i \in 1..Len(sets) |->
                                     sets[i].cost_per_ticket * sets[i].quantity])
             groupProfit == Reduce([i \in 1..Len(sets) |-> GroupProfitTerm(sets[i])])
         IN  Some([groupName |-> groupName, sets |-> sets,
                   groupQty |-> groupQty, groupCost |-> groupCost,
                   groupProfit |-> groupProfit,
                   shownCost |-> formatCurrency(Some(groupCost)),
                   shownProfit |-> Signed(groupProfit),
                   rows |-> [i \in 1..Len(sets) |-> DashRow(sets[i])]])

RenderDash(d) ==
    [rows |-> IF d = Null THEN <<>>
              ELSE [i \in 1..Len(Val(d).sets) |-> DashRow(Val(d).sets[i])],
     groups |-> IF d = Null THEN <<>>
                ELSE LET groups == ProductGroups(Val(d).sets)
                     IN  [g \in 1..Len(GroupNames) |->
                            GroupView(GroupNames[g], groups[GroupNames[g]])]]

----------------------------------------------------------------------------
(* The comparison data the backend serves (GET /comparison) *)

\* the platform the backend reports as best for two net receives
BestPlatform(vividReceive, stubhubReceive) ==
    IF vividReceive = Null /\ stubhubReceive = Null THEN {Null}
    ELSE IF stubhubReceive = Null THEN {Some("Vivid")}
    ELSE IF vividReceive = Null THEN {Some("StubHub")}
    ELSE IF Val(vividReceive) > Val(stubhubReceive) THEN {Some("Vivid")}
    ELSE IF Val(stubhubReceive) > Val(vividReceive) THEN {Some("StubHub")}
    ELSE {Some("Vivid"), Some("StubHub")}

\* the ticket sets a response is built from
SetA == [set_name |-> "A", date |-> "Sept 2",
         section |-> <<"2", "0", "0", "s", " ", "R", "o", "w", " ", "1">>,
         quantity |-> 4, cost_per_ticket |-> Cents(47125)]
SetB == [set_name |-> "B", date |-> "Sept 19",
         section |-> <<"L", "e", "f", "t", " ", "G", "A">>,
         quantity |-> 2, cost_per_ticket |-> Dollars(630)]
SetC == [set_name |-> "C", date |-> "Sept 18",
         section |-> <<"S", "e", "c", "t", "i", "o", "n", " ", "1", "1", "2">>,
         quantity |-> 8, cost_per_ticket |-> Cents(32488)]
SetD == [set_name |-> "D", date |-> "Oct 9",
         section |-> <<"L", "e", "f", "t", " ", "G", "A">>,
         quantity |-> 5, cost_per_ticket |-> Cents(43320)]
SetB595 == [SetB EXCEPT !.cost_per_ticket = Dollars(595)]
SetE == [set_name |-> "E", date |-> "Sept 25",
         section |-> <<"1", "0", "0", "s", " ", "(", "s", "o", "l", "o", "s", ")">>,
         quantity |-> 4, cost_per_ticket |-> Dollars(368)]
\* a set on a date the Dashboard's date table lacks, in a section naming GA and 200
SetF == [set_name |-> "F", date |-> "Nov 7",
         section |-> <<"G", "A", " ", "2", "0", "0">>,
         quantity |-> 1, cost_per_ticket |-> Dollars(100)]

\* a TicketSet of the response, from the buyer prices seen on each platform
TicketSets(base, vividBuyer, stubhubBuyer) ==
    LET vr == IF vividBuyer = Null THEN Null
              ELSE Some(TimesOneMinus(Val(vividBuyer), VIVID_FEE))
        sr == IF stubhubBuyer = Null THEN Null
              ELSE Some(TimesOneMinus(Val(stubhubBuyer), STUBHUB_FEE))
    IN  { [set_name |-> base.set_name, date |-> base.date, section |-> base.section,
           quantity |-> base.quantity, cost_per_ticket |-> base.cost_per_ticket,
           total_cost |-> base.cost_per_ticket * base.quantity,
           vivid_buyer_price |-> vividBuyer, vivid_you_receive |-> vr,
           stubhub_buyer_price |-> stubhubBuyer, stubhub_you_receive |-> sr,
           best_platform |-> b] : b \in BestPlatform(vr, sr) }

\* every ordering of distinct sets drawn from S
Lists(S) ==
    {<<>>} \cup {<<a>> : a \in S}
           \cup {<<p[1], p[2]>> : p \in {q \in S \X S : q[1].set_name # q[2].set_name}}

\* every ordering of up to three distinct sets drawn from S
Lists3(S) ==
    Lists(S) \cup {<<p[1], p[2], p[3]>> :
                     p \in {q \in S \X S \X S :
                              Cardinality({q[1].set_name, q[2].set_name,
                                           q[3].set_name}) = 3}}
Unpriced(bases) == UNION {TicketSets(b, Null, Null) : b \in bases}
Quotes == {Null, Some(Dollars(0)), Some(Dollars(700)), Some(Dollars(777))}
Priced(bases) ==
    UNION {TicketSets(b, v, s) : b \in bases, v \in Quotes, s \in Quotes}

Response(sets) == Some([sets |-> sets])

\* responses while the market has no listings: the calculator's input
SensData ==
    {Response(l) : l \in Lists(Unpriced({SetA, SetB})) \cup Lists(Unpriced({SetB595}))}
\* responses with market prices: the Dashboard's input
DashData == {Response(l) : l \in Lists(Priced({SetA, SetB}))}
\* responses with two sets of one product group on sale at 777
MoneyData ==
    {Response(l) : l \in {m \in Lists(UNION {TicketSets(b, Some(Dollars(777)), Null) :
                                                b \in {SetB, SetD}}) : Len(m) = 2}}

\* responses with sets of all three product groups, in any order
ProductData == {Response(l) : l \in Lists3(Unpriced({SetA, SetB, SetC, SetD, SetE, SetF}))}

----------------------------------------------------------------------------
(* InventoryTable *)

\* the reduce over items, from { quantity: 0, cost: 0, revenue: 0, profit: 0 }
RECURSIVE InventoryTotals(_)
InventoryTotals(items) ==
    IF items = <<>> THEN [quantity |-> 0, cost |-> 0, revenue |-> 0, profit |-> 0]
    ELSE LET acc == InventoryTotals(SubSeq(items, 1, Len(items) - 1))
             item == items[Len(items)]
         IN  [quantity |-> acc.quantity + item.quantity,
              cost |-> acc.cost + item.total_cost,
              revenue |-> acc.revenue + (IF Truthy(item.expected_revenue)
                                         THEN Val(item.expected_revenue) ELSE 0),
              profit |-> acc.profit + (IF Truthy(item.expected_profit)
                                       THEN Val(item.expected_profit) ELSE 0)]

InventoryTable(items, isLoading) ==
    IF isLoading THEN [message |-> Some("Loading inventory..."), totals |-> Null]
    ELSE IF items = Null \/ Len(Val(items)) = 0
    THEN [message |-> Some("No inventory items found"), totals |-> Null]
    ELSE [message |-> Null, items |-> Val(items),
          totals |-> Some(InventoryTotals(Val(items)))]

\* the inventory items the backend serves (GET /inventory)
Items ==
    {[id |-> b.id, quantity |-> b.quantity, total_cost |-> b.total_cost,
      expected_revenue |-> r, expected_profit |-> p] :
        b \in {[id |-> 1, quantity |-> 4, total_cost |-> Dollars(1885)],
                [id |-> 2, quantity |-> 2, total_cost |-> Dollars(1260)]},
        r \in {Null, Some(Dollars(0)), Some(Dollars(2520))},
        p \in {Null, Some(Dollars(635))}}
ItemLists ==
    {<<>>} \cup {<<a>> : a \in Items}
           \cup {<<q[1], q[2]>> : q \in {r \in Items \X Items : r[1].id # r[2].id}}

----------------------------------------------------------------------------
(* Polling *)

Minute == 60 * 1000
\* the refetchInterval each query hook is created with
refetchInterval ==
    [useComparison |-> 5 * 60 * 1000,
     useInventory |-> 5 * 60 * 1000,
     useInventoryItem |-> 5 * 60 * 1000,
     useLiveInventory |-> 60 * 60 * 1000,
     useRevenueAnalytics |-> 5 * 60 * 1000,
     usePriceHistory |-> 5 * 60 * 1000,
     usePlatformComparison |-> 5 * 60 * 1000,
     useCurrentListings |-> 5 * 60 * 1000,
     useComparableListings |-> 5 * 60 * 1000,
     useAllRecentListings |-> 5 * 60 * 1000,
     history |-> 5 * 60 * 1000,
     profitOverTime |-> 5 * 60 * 1000]
Hooks == DOMAIN refetchInterval

----------------------------------------------------------------------------
(* Analytics: the price chart *)

MaxSnapshots == 3

\* The timestamps of a history response, written as the two characters in
\* which they differ: the minute, then the second.
Timestamps == {<<"0", "0">>, <<"0", "7">>, <<"7", "0">>}
SetNames == {"Set A", "Set B"}
\* the fields of a PriceSnapshot that priceChartData reads
PriceSnapshots ==
    [timestamp : Timestamps, set_name : SetNames,
     avg_lowest_2 : {Null, Some(Dollars(100)), Some(Dollars(200))}]

\* formatTime prints month, day, hour and minute: the second is dropped
formatTime(timestamp) == SubSeq(timestamp, 1, Len(timestamp) - 1)

\* a < b in the order Array.prototype.sort() gives strings: by code unit,
\* a proper prefix first
RECURSIVE StringLess(_, _)
StringLess(a, b) ==
    IF b = <<>> THEN FALSE
    ELSE IF a = <<>> THEN TRUE
    ELSE IF Head(a) # Head(b) THEN DigitVal(Head(a)) < DigitVal(Head(b))
    ELSE StringLess(Tail(a), Tail(b))

\* [...new Set(values)]: each value once, in the order first seen
RECURSIVE Distinct(_)
Distinct(values) ==
    IF values = <<>> THEN <<>>
    ELSE LET rest == Distinct(SubSeq(values, 1, Len(values) - 1))
             last == values[Len(values)]
         IN  IF \E i \in DOMAIN rest : rest[i] = last THEN rest ELSE Append(rest, last)

\* .sort() of strings
RECURSIVE SortStrings(_)
SortStrings(strings) ==
    IF strings = <<>> THEN <<>>
    ELSE LET rest == SortStrings(SubSeq(strings, 1, Len(strings) - 1))
             last == strings[Len(strings)]
             k == Cardinality({i \in 1..Len(rest) : ~StringLess(last, rest[i])})
         IN  SubSeq(rest, 1, k) \o <<last>> \o SubSeq(rest, k + 1, Len(rest))

\* Object.keys(grouped): the set names in the order first seen
GroupedKeys(snapshots) ==
    Distinct([i \in DOMAIN snapshots |-> snapshots[i].set_name])

\* grouped[setName]: the snapshots of a set, in input order
Grouped(snapshots, setName) ==
    SelectSeq(snapshots, LAMBDA s : s.set_name = setName)

\* a find that returns the last match
find_Last(list, ts) ==
    LET hits == {i \in DOMAIN list : list[i].timestamp = ts}
    IN  IF hits = {} THEN Null
        ELSE Some(list[CHOOSE i \in hits : \A j \in hits : j <= i])

\* list.find((s) => s.timestamp === ts): the first match, or undefined
find(list, ts) ==
    LET hits == {i \in DOMAIN list : list[i].timestamp = ts}
    IN  IF hits = {} THEN Null
        ELSE Some(list[CHOOSE i \in hits : \A j \in hits : i <= j])

\* point[key] = value
SetKey(point, key, value) ==
    [k \in DOMAIN point \cup {key} |-> IF k = key THEN value ELSE point[k]]

\* Object.keys(grouped).forEach over the keys left, for the point of ts
RECURSIVE PointFrom(_, _, _, _)
PointFrom(point, snapshots, keys, ts) ==
    IF keys = <<>> THEN point
    ELSE LET snapshot == find(Grouped(snapshots, Head(keys)), ts)
         IN  PointFrom(IF snapshot # Null
                       THEN SetKey(point, Head(keys), Val(snapshot).avg_lowest_2)
                       ELSE point,
                       snapshots, Tail(keys), ts)

priceChartData(h) ==
    IF h = Null THEN <<>>
    ELSE LET snapshots == Val(h).snapshots
             timestamps ==
                 SortStrings(Distinct([i \in DOMAIN snapshots |-> snapshots[i].timestamp]))
         IN  [p \in 1..Len(timestamps) |->
                PointFrom([time |-> formatTime(timestamps[p])], snapshots,
                          GroupedKeys(snapshots), timestamps[p])]

----------------------------------------------------------------------------
(* Hooks that take an optional id *)

MaxRequests == 3

IdHooks == {"usePriceHistory", "usePlatformComparison",
            "useCurrentListings", "useComparableListings"}
\* undefined, 0 and a real id
Ids == {Null, Some(0), Some(1)}

\* a query that is enabled whatever its id
enabled_Always(id) == TRUE

\* enabled: !!eventId (!!inventoryId)
enabled(id) == Truthy(id)

\* queryFn: the fetch function called with the id of this render (eventId!)
Request(hook, id) == [hook |-> hook, id |-> id]

----------------------------------------------------------------------------
(* Analytics: Take Snapshot *)

MaxClicks == 3

Event(event, click) == [event |-> event, click |-> click]
Clicks(log) == {log[p].click : p \in DOMAIN log}
Settled(log) ==
    {log[p].click : p \in {q \in DOMAIN log : log[q].event \in {"resolved", "rejected"}}}

----------------------------------------------------------------------------
(* State machine *)

Rendered(d, sp) ==
    /\ sens1' = Render1(d, sp)
    /\ sens2' = Render2(d, sp)
    /\ dash' = RenderDash(d)

Init ==
    /\ data = Null
    /\ sellingPrices = <<>>
    /\ sens1 = Render1(Null, <<>>)
    /\ sens2 = Render2(Null, <<>>)
    /\ dash = RenderDash(Null)
    /\ probe = Null
    /\ scale = Null
    /\ sinceFetch = [h \in Hooks |-> 0]
    /\ inventory = InventoryTable(Null, TRUE)
    /\ history = Null
    /\ priceChart = priceChartData(Null)
    /\ snapshotLog = <<>>
    /\ hookId = [h \in IdHooks |-> Null]
    /\ sent = <<>>

\* a refetch that remounts the page, so the entered prices are lost
Refetch_DropsPrices(d) ==
    /\ data' = d
    /\ sellingPrices' = <<>>
    /\ UNCHANGED <<probe, scale, sinceFetch, inventory, analyticsVars>>
    /\ Rendered(d, <<>>)

\* the comparison query resolves with a response
Refetch(d) ==
    /\ data' = d
    /\ UNCHANGED <<sellingPrices, probe, scale, sinceFetch, inventory, analyticsVars>>
    /\ Rendered(d, sellingPrices)

\* the texts one edit of a price field can leave in it
Edits(cur) ==
    {Append(cur, c) : c \in IF Len(cur) < MaxLen THEN Chars ELSE {}}
        \cup (IF cur # <<>> THEN {SubSeq(cur, 1, Len(cur) - 1)} ELSE {})
        \cup {<<>>}

Shown(sp, setName) == IF setName \in DOMAIN sp THEN sp[setName] ELSE <<>>

\* a setter that forgets the spread of the previous prices
SetPrice_Replace(prev, setName, value) ==
    [k \in {setName} |-> value]

\* setSellingPrices(prev => ({ ...prev, [setName]: value }))
SetPrice(prev, setName, value) ==
    [k \in DOMAIN prev \cup {setName} |-> IF k = setName THEN value ELSE prev[k]]

\* handlePriceChange adding to totals kept from the render before
handlePriceChange_KeepsTotals(i, value) ==
    LET setName == Val(data).sets[i].set_name
        sp == SetPrice(sellingPrices, setName, value)
    IN  /\ sellingPrices' = sp
        /\ UNCHANGED <<data, probe, scale, sinceFetch, inventory, analyticsVars>>
        /\ sens1' = [Render1(data, sp) EXCEPT
                        !.totals.totalVividProfit = @ + sens1.totals.totalVividProfit]
        /\ sens2' = Render2(data, sp)
        /\ dash' = RenderDash(data)

\* onChange of the price field of row i
handlePriceChange(i, value) ==
    LET setName == Val(data).sets[i].set_name
    IN  /\ sellingPrices' = SetPrice(sellingPrices, setName, value)
        /\ UNCHANGED <<data, probe, scale, sinceFetch, inventory, analyticsVars>>
        /\ Rendered(data, sellingPrices')

PriceChange ==
    /\ data # Null
    /\ \E i \in 1..Len(Val(data).sets) :
         \E value \in Edits(Shown(sellingPrices, Val(data).sets[i].set_name)) :
            handlePriceChange(i, value)

SensRefetch == \E d \in SensData : Refetch(d)
DashRefetch == \E d \in DashData : Refetch(d)

Next == SensRefetch \/ PriceChange
Spec == Init /\ [][Next]_vars

\* the calculator and the Dashboard over the same priced response
MoneyRefetch == \E d \in MoneyData : Refetch(d)
NextMoney == MoneyRefetch \/ PriceChange
SpecMoney == Init /\ [][NextMoney]_vars

\* the calculator while refetches drop a set from the response or add one
LatestData ==
    {Response(l) : l \in {m \in Lists(Unpriced({SetA, SetB})) :
                             m # <<>> /\ (Len(m) = 2 => m[1].set_name = "A")}}
LatestRefetch == \E d \in LatestData : Refetch(d)
NextLatest == LatestRefetch \/ PriceChange
SpecLatest == Init /\ [][NextLatest]_vars

NextDash == DashRefetch
SpecDash == Init /\ [][NextDash]_vars

\* a set priced at its own breakeven, on each platform
ProbeCosts ==
    {Cents(c) : c \in 0..MaxProbeCents}
        \cup {SetA.cost_per_ticket, SetB.cost_per_ticket, SetB595.cost_per_ticket}
ProbeSets == {[SetA EXCEPT !.cost_per_ticket = c] : c \in ProbeCosts}

EnterBreakeven(set) ==
    LET card == Breakeven(set)
    IN  /\ probe' = Some([set |-> set, card |-> card,
                          atVivid1 |-> Row1(set, Some(card.vividBreakeven)),
                          atStubhub1 |-> Row1(set, Some(card.stubhubBreakeven)),
                          atVivid2 |-> Row2(set, Some(card.vividBreakeven)),
                          atStubhub2 |-> Row2(set, Some(card.stubhubBreakeven))])
        /\ UNCHANGED <<data, sellingPrices, sens1, sens2, dash, scale, sinceFetch,
                       inventory, analyticsVars>>

NextBreakeven == \E set \in ProbeSets : EnterBreakeven(set)
SpecBreakeven == Init /\ [][NextBreakeven]_vars

\* a set projected at one price with its quantity and with twice its quantity
ScaleSets ==
    {[SetA EXCEPT !.quantity = q, !.cost_per_ticket = c] :
        q \in 1..MaxQty,
        c \in {SetA.cost_per_ticket, SetB.cost_per_ticket, SetB595.cost_per_ticket}}
ScalePrices == {Null} \cup {Some(Dollars(n)) : n \in {0, 7, 700, 777}}

ProjectTwice(set, price) ==
    LET twice == [set EXCEPT !.quantity = 2 * @]
    IN  /\ scale' = Some([set |-> set, price |-> price,
                          once1 |-> Row1(set, price), twice1 |-> Row1(twice, price),
                          once2 |-> Row2(set, price), twice2 |-> Row2(twice, price)])
        /\ UNCHANGED <<data, sellingPrices, sens1, sens2, dash, probe, sinceFetch,
                       inventory, analyticsVars>>

NextScale == \E set \in ScaleSets, price \in ScalePrices : ProjectTwice(set, price)
SpecScale == Init /\ [][NextScale]_vars

\* a minute passes: every query whose interval has elapsed issues its refetch
Tick ==
    /\ sinceFetch' = [h \in Hooks |->
                        IF sinceFetch[h] + Minute >= refetchInterval[h] THEN 0
                        ELSE sinceFetch[h] + Minute]
    /\ UNCHANGED <<data, sellingPrices, sens1, sens2, dash, probe, scale, inventory, analyticsVars>>

\* the Dashboard's Refresh Prices button: refetch() of the comparison query
Refresh ==
    /\ sinceFetch' = [sinceFetch EXCEPT !["useComparison"] = 0]
    /\ UNCHANGED <<data, sellingPrices, sens1, sens2, dash, probe, scale, inventory, analyticsVars>>

NextPoll == Tick \/ Refresh
SpecPoll == Init /\ [][NextPoll]_vars

\* responses with sets of one product group, unlisted, free or on sale at 777
GroupData ==
    {Response(l) :
        l \in Lists(UNION {TicketSets(b, v, Null) :
                              b \in {SetB, SetD},
                              v \in {Null, Some(Dollars(0)), Some(Dollars(777))}})}
GroupRefetch == \E d \in GroupData : Refetch(d)

\* the inventory query resolves and the Inventory page renders its table
InventoryFetch(items) ==
    /\ inventory' = InventoryTable(Some(items), FALSE)
    /\ UNCHANGED <<data, sellingPrices, sens1, sens2, dash, probe, scale, sinceFetch, analyticsVars>>

\* the Dashboard over responses with sets of every product group
ProductRefetch == \E d \in ProductData : Refetch(d)
NextProducts == ProductRefetch
SpecProducts == Init /\ [][NextProducts]_vars

NextGroups == GroupRefetch \/ \E items \in ItemLists : InventoryFetch(items)
SpecGroups == Init /\ [][NextGroups]_vars

\* the history query resolves: the snapshots served before, and at most one more
HistoryFetch ==
    LET before == IF history = Null THEN <<>> ELSE Val(history).snapshots
    IN  \E more \in {<<>>} \cup {<<s>> : s \in PriceSnapshots} :
          /\ Len(before) + Len(more) <= MaxSnapshots
          /\ history' = Some([snapshots |-> before \o more])
          /\ priceChart' = priceChartData(history')
          /\ UNCHANGED <<pageVars, snapshotLog, hookId, sent>>

NextChart == HistoryFetch
SpecChart == Init /\ [][NextChart]_vars

\* a handler that does not wait for the POST before it refetches
handleTakeSnapshot_NoAwait(click) ==
    /\ snapshotLog' = snapshotLog \o <<Event("post", click),
                                       Event("refetchHistory", click),
                                       Event("refetchProfit", click)>>
    /\ UNCHANGED <<pageVars, history, priceChart, hookId, sent>>

\* onClick of Take Snapshot: takeSnapshot() sends the POST and the handler
\* waits at its await
handleTakeSnapshot(click) ==
    /\ snapshotLog' = Append(snapshotLog, Event("post", click))
    /\ UNCHANGED <<pageVars, history, priceChart, hookId, sent>>

\* the POST of a click succeeds: its handler resumes and calls both refetches
PostResolves(click) ==
    /\ click \in Clicks(snapshotLog) \ Settled(snapshotLog)
    /\ snapshotLog' = snapshotLog \o <<Event("resolved", click),
                                       Event("refetchHistory", click),
                                       Event("refetchProfit", click)>>
    /\ UNCHANGED <<pageVars, history, priceChart, hookId, sent>>

\* the POST of a click fails: await throws and the handler ends there
PostRejects(click) ==
    /\ click \in Clicks(snapshotLog) \ Settled(snapshotLog)
    /\ snapshotLog' = Append(snapshotLog, Event("rejected", click))
    /\ UNCHANGED <<pageVars, history, priceChart, hookId, sent>>

TakeSnapshot ==
    /\ Cardinality(Clicks(snapshotLog)) < MaxClicks
    /\ handleTakeSnapshot(Cardinality(Clicks(snapshotLog)) + 1)
NextSnapshot ==
    \/ TakeSnapshot
    \/ \E click \in 1..MaxClicks : PostResolves(click)
    \/ \E click \in 1..MaxClicks : PostRejects(click)
SpecSnapshot == Init /\ [][NextSnapshot]_vars

\* a component renders the hook with another id: a new query key, fetched
\* at once when the query is enabled
RenderWithId(hook, id) ==
    /\ id # hookId[hook]
    /\ enabled(id) => Len(sent) < MaxRequests
    /\ hookId' = [hookId EXCEPT ![hook] = id]
    /\ sent' = IF enabled(id) THEN Append(sent, Request(hook, id)) ELSE sent
    /\ UNCHANGED <<pageVars, history, priceChart, snapshotLog>>

\* the refetchInterval of a hook elapses: an enabled query fetches again
IntervalRefetch(hook) ==
    /\ enabled(hookId[hook])
    /\ Len(sent) < MaxRequests
    /\ sent' = Append(sent, Request(hook, hookId[hook]))
    /\ UNCHANGED <<pageVars, history, priceChart, snapshotLog, hookId>>

NextHooks ==
    \/ \E hook \in IdHooks, id \in Ids : RenderWithId(hook, id)
    \/ \E hook \in IdHooks : IntervalRefetch(hook)
SpecHooks == Init /\ [][NextHooks]_vars

----------------------------------------------------------------------------
(* Properties *)

\* the sum of f[x] over the finite set S
RECURSIVE SumOver(_, _)
SumOver(S, f) ==
    IF S = {} THEN 0
    ELSE LET x == CHOOSE y \in S : TRUE IN f[x] + SumOver(S \ {x}, f)

Loaded == data # Null
Sets == Val(data).sets
Rows == 1..Len(Sets)
Text(i) == Shown(sellingPrices, Sets[i].set_name)
Totals2 == Val(sens2.totals)

\* the profit of set i sold at price p on a platform with the given fee
ProfitAt(i, p, fee) ==
    (TimesOneMinus(p, fee) - Sets[i].cost_per_ticket) * Sets[i].quantity

\* the total profit the projection rule prescribes: the priced sets only
PricedRows == {i \in Rows : sens1.rows[i].price # Null}
PricedProfit(fee) ==
    SumOver(PricedRows,
            [i \in PricedRows |-> ProfitAt(i, Val(sens1.rows[i].price), fee)])

\* C1: in both totals computations each platform's total profit is the sum,
\* over the sets that have a price, of (price * (1 - fee) - cost) * quantity;
\* a set without a price contributes 0.
C1_UnpricedContributeZero ==
    Loaded =>
        /\ sens1.totals.totalVividProfit = PricedProfit(VIVID_FEE)
        /\ sens1.totals.totalStubHubProfit = PricedProfit(STUBHUB_FEE)
        /\ Totals2.totalVividProfit = PricedProfit(VIVID_FEE)
        /\ Totals2.totalStubHubProfit = PricedProfit(STUBHUB_FEE)

\* a text that is empty, not a number, or a negative number
InvalidText(s) ==
    \/ s = <<>>
    \/ parseFloat(s).isNaN
    \/ parseFloat(s).num < 0

Blank1(r) ==
    /\ r.price = Null
    /\ r.vividReceive = Null /\ r.stubhubReceive = Null
    /\ r.vividProfit = Null /\ r.stubhubProfit = Null
Blank2(r) ==
    /\ r.price = Null
    /\ r.vividReceive = Null /\ r.stubhubReceive = Null
    /\ r.vividProfitPer = Null /\ r.stubhubProfitPer = Null
    /\ r.vividTotalProfit = Null /\ r.stubhubTotalProfit = Null

\* C2: an empty, non-numeric or negative price text is "no price": the lookup
\* gives null and the row shows placeholders only.
C2_InvalidInputIsNoPrice ==
    Loaded =>
        \A i \in Rows :
            InvalidText(Text(i)) => Blank1(sens1.rows[i]) /\ Blank2(sens2.rows[i])

Full1(r) ==
    /\ r.vividReceive # Null /\ r.stubhubReceive # Null
    /\ r.vividProfit # Null /\ r.stubhubProfit # Null
Full2(r) ==
    /\ r.vividReceive # Null /\ r.stubhubReceive # Null
    /\ r.vividProfitPer # Null /\ r.stubhubProfitPer # Null
    /\ r.vividTotalProfit # Null /\ r.stubhubTotalProfit # Null

\* C3: a price text that is a finite number >= 0 gives a row in which net
\* receive, profit per ticket and aggregate profit are all computed values.
C3_ValidPriceIsProjected ==
    Loaded =>
        \A i \in Rows :
            ~InvalidText(Text(i)) => Full1(sens1.rows[i]) /\ Full2(sens2.rows[i])

\* C4: wherever a profit per ticket is shown it is net receive - cost, the
\* aggregate profit is shown with it and is profit per ticket * quantity.
C4_ProjectionIdentities ==
    Loaded =>
        \A i \in Rows :
            /\ dash.rows[i].profitPerTicket # Null =>
                /\ Val(dash.rows[i].profitPerTicket)
                      = Val(Sets[i].vivid_you_receive) - Sets[i].cost_per_ticket
                /\ dash.rows[i].totalProfit # Null
                /\ Val(dash.rows[i].totalProfit)
                      = Val(dash.rows[i].profitPerTicket) * Sets[i].quantity
            /\ sens2.rows[i].vividProfitPer # Null =>
                /\ Val(sens2.rows[i].vividProfitPer)
                      = Val(sens2.rows[i].vividReceive) - Sets[i].cost_per_ticket
                /\ sens2.rows[i].vividTotalProfit # Null
                /\ Val(sens2.rows[i].vividTotalProfit)
                      = Val(sens2.rows[i].vividProfitPer) * Sets[i].quantity
            /\ sens2.rows[i].stubhubProfitPer # Null =>
                /\ Val(sens2.rows[i].stubhubProfitPer)
                      = Val(sens2.rows[i].stubhubReceive) - Sets[i].cost_per_ticket
                /\ sens2.rows[i].stubhubTotalProfit # Null
                /\ Val(sens2.rows[i].stubhubTotalProfit)
                      = Val(sens2.rows[i].stubhubProfitPer) * Sets[i].quantity
            /\ sens1.rows[i].vividProfit # Null =>
                Val(sens1.rows[i].vividProfit)
                    = (Val(sens1.rows[i].vividReceive) - Sets[i].cost_per_ticket)
                        * Sets[i].quantity
            /\ sens1.rows[i].stubhubProfit # Null =>
                Val(sens1.rows[i].stubhubProfit)
                    = (Val(sens1.rows[i].stubhubReceive) - Sets[i].cost_per_ticket)
                        * Sets[i].quantity

AllCost == SumOver(Rows, [i \in Rows |-> Sets[i].cost_per_ticket * Sets[i].quantity])

\* C5: totalCost is the sum of cost_per_ticket * quantity over all sets,
\* whatever prices are entered; an unpriced set still counts in full.
C5_TotalCostIsSumOfAllSets ==
    Loaded =>
        /\ sens1.totals.totalCost = AllCost
        /\ Totals2.totalCost = AllCost

\* set A (4 x 471.25) has had its price cleared, another set is priced, and
\* the total cost still holds A's 1885.00
C5_Witness ==
    /\ Loaded
    /\ \E i \in Rows, j \in Rows :
        /\ Sets[i].set_name = "A" /\ Sets[i].quantity = 4
        /\ Sets[i].cost_per_ticket = Cents(47125)
        /\ "A" \in DOMAIN sellingPrices /\ sens1.rows[i].price = Null
        /\ sens1.rows[j].price # Null /\ Truthy(sens1.rows[j].price)
        /\ sens1.totals.totalCost
              = Cents(188500) + Sets[j].cost_per_ticket * Sets[j].quantity
        /\ Totals2.totalCost = sens1.totals.totalCost

\* C6: for every entered price >= 0 the net receive of a row is
\* price * 0.90 on Vivid and price * 0.85 on StubHub, and a fee of 0 leaves
\* the price unchanged.
C6_NetReceiveFormula ==
    Loaded =>
        \A i \in Rows :
            LET p == sens1.rows[i].price
            IN  (p # Null /\ Val(p) >= 0) =>
                  /\ TimesOneMinus(Val(p), 0) = Val(p)
                  /\ \A r \in {sens1.rows[i], sens2.rows[i]} :
                        /\ r.vividReceive # Null
                        /\ Val(r.vividReceive) * FeeUnit = Val(p) * 90
                        /\ r.stubhubReceive # Null
                        /\ Val(r.stubhubReceive) * FeeUnit = Val(p) * 85

Abs(x) == IF x < 0 THEN -x ELSE x
\* q is the integer nearest to a / b
IsNearest(q, a, b) == 2 * Abs(q * b - a) <= b
RoundToCents(x) == RoundDiv(x, Unit \div 100)

Tolerance == Unit \div 1000
Within(x, target, tol) == x # Null /\ Abs(Val(x) - target) <= tol

\* C8: a set priced at its breakeven has net receive equal to its cost and
\* profit equal to 0, within tolerance, on the platform the breakeven is for.
C8_BreakevenRoundTrips ==
    probe # Null =>
        LET pr == Val(probe)
            cost == pr.set.cost_per_ticket
            qty == pr.set.quantity
        IN  /\ Within(pr.atVivid2.vividReceive, cost, Tolerance)
            /\ Within(pr.atVivid2.vividProfitPer, 0, Tolerance)
            /\ Within(pr.atStubhub2.stubhubReceive, cost, Tolerance)
            /\ Within(pr.atStubhub2.stubhubProfitPer, 0, Tolerance)
            /\ Within(pr.atVivid1.vividReceive, cost, Tolerance)
            /\ Within(pr.atVivid1.vividProfit, 0, Tolerance * qty)
            /\ Within(pr.atStubhub1.stubhubReceive, cost, Tolerance)
            /\ Within(pr.atStubhub1.stubhubProfit, 0, Tolerance * qty)

\* the orderings of a sequence
Perms(seq) ==
    LET n == Len(seq)
        bij == {f \in [1..n -> 1..n] : \A a, b \in 1..n : f[a] = f[b] => a = b}
    IN  {[i \in 1..n |-> seq[f[i]]] : f \in bij}

\* C9: the totals do not depend on the order of the sets: computed over any
\* reordering of data.sets they equal the totals of this render.
C9_TotalsOrderIndependent ==
    Loaded =>
        \A perm \in Perms(Sets) :
            /\ Totals1(Response(perm), sellingPrices) = sens1.totals
            /\ calculateTotals(Response(perm), sellingPrices) = sens2.totals

\* two sets, both priced, at different prices and with different profits
C9_Witness ==
    /\ Loaded
    /\ Len(Sets) = 2
    /\ Truthy(sens1.rows[1].price) /\ Truthy(sens1.rows[2].price)
    /\ sens1.rows[1].price # sens1.rows[2].price
    /\ sens1.rows[1].vividProfit # sens1.rows[2].vividProfit
    /\ sens1.totals.totalVividProfit
          = Val(sens1.rows[1].vividProfit) + Val(sens1.rows[2].vividProfit)

Label(platform) == IF platform = Null THEN "-" ELSE Val(platform)

----------------------------------------------------------------------------
----------------------------------------------------------------------------
\* the values of a column of rows that are present, and their sum
Present(rows, Column(_)) == {i \in DOMAIN rows : Column(rows[i]) # Null}
SumPresent(rows, Column(_)) ==
    SumOver(Present(rows, Column),
            [i \in Present(rows, Column) |-> Val(Column(rows[i]))])
\* the same sum taken over the whole dollars each value is printed as
SumPrinted(rows, Column(_)) ==
    SumOver(Present(rows, Column),
            [i \in Present(rows, Column) |-> WholeDollars(Val(Column(rows[i])))])

VividProfit1(r) == r.vividProfit
StubhubProfit1(r) == r.stubhubProfit
VividReceive2(r) == r.vividReceive
StubhubReceive2(r) == r.stubhubReceive
\* the revenue of the rows of the second version that show a net receive
Revenue2(Receive(_)) ==
    SumOver(Present(sens2.rows, Receive),
            [i \in Present(sens2.rows, Receive) |->
                Val(Receive(sens2.rows[i])) * Sets[i].quantity])
TotalProfitOf(r) == r.totalProfit
Groups == {g \in DOMAIN dash.groups : dash.groups[g] # Null}
Group(g) == Val(dash.groups[g])
GroupCostOf(g) ==
    SumOver(DOMAIN Group(g).sets,
            [i \in DOMAIN Group(g).sets |->
                Group(g).sets[i].cost_per_ticket * Group(g).sets[i].quantity])

\* C12: every total is the exact sum of the unrounded per-set values (the
\* calculator's total cost and total profits, the Dashboard's group cost and
\* group profit), and only the printed text is rounded to whole dollars.
C12_RoundedOnlyWhenFormatted ==
    Loaded =>
        /\ sens1.totals.totalCost = AllCost
        /\ sens1.totals.totalVividProfit = SumPresent(sens1.rows, VividProfit1)
        /\ sens1.totals.totalStubHubProfit = SumPresent(sens1.rows, StubhubProfit1)
        /\ Val(sens1.shown).totalCost = <<"$", WholeDollars(AllCost)>>
        /\ Totals2.totalCost = AllCost
        /\ Totals2.totalVividRevenue = Revenue2(VividReceive2)
        /\ Totals2.totalStubHubRevenue = Revenue2(StubhubReceive2)
        /\ Totals2.totalVividProfit = Totals2.totalVividRevenue - AllCost
        /\ Totals2.totalStubHubProfit = Totals2.totalStubHubRevenue - AllCost
        /\ Val(sens2.cards).totalCost = <<"$", WholeDollars(AllCost)>>
        /\ \A g \in Groups :
             /\ Group(g).groupCost = GroupCostOf(g)
             /\ Group(g).groupProfit = SumPresent(Group(g).rows, TotalProfitOf)
             /\ Group(g).shownCost = <<"$", WholeDollars(GroupCostOf(g))>>
             /\ Group(g).shownProfit[Len(Group(g).shownProfit)]
                    = WholeDollars(SumPresent(Group(g).rows, TotalProfitOf))

\* a state in which the sum of the printed per-set figures differs from the
\* printed total, on the calculator and in a Dashboard group of two sets
C12_Witness ==
    /\ Loaded
    /\ Cardinality(Present(sens1.rows, VividProfit1)) = 2
    /\ SumPrinted(sens1.rows, VividProfit1)
          # WholeDollars(sens1.totals.totalVividProfit)
    /\ \E g \in Groups :
         /\ Len(Group(g).rows) = 2
         /\ SumPrinted(Group(g).rows, TotalProfitOf) # WholeDollars(Group(g).groupProfit)

----------------------------------------------------------------------------
----------------------------------------------------------------------------
\* C14: for the set of 4 tickets bought at 471.25 each, priced at 700 with the
\* 10% fee, the net receive is 630.00, the profit per ticket 158.75 and the
\* aggregate profit 635.00.
C14_WorkedExample ==
    Loaded =>
        \A i \in Rows :
            (/\ Sets[i].quantity = 4
             /\ Sets[i].cost_per_ticket = Cents(47125)
             /\ getPrice(sellingPrices, Sets[i].set_name) = Some(Dollars(700)))
            => /\ sens2.rows[i].vividReceive = Some(Dollars(630))
               /\ sens2.rows[i].vividProfitPer = Some(Cents(15875))
               /\ sens2.rows[i].vividTotalProfit = Some(Dollars(635))
               /\ sens1.rows[i].vividReceive = Some(Dollars(630))
               /\ sens1.rows[i].vividProfit = Some(Dollars(635))

C14_Witness ==
    /\ Loaded
    /\ \E i \in Rows :
         /\ Sets[i].quantity = 4
         /\ Sets[i].cost_per_ticket = Cents(47125)
         /\ Text(i) = <<"7", "0", "0">>
         /\ sens2.rows[i].vividTotalProfit = Some(Dollars(635))

----------------------------------------------------------------------------
\* C15: the aggregate profit is linear in the quantity: at the same price,
\* cost and fee, twice the quantity gives exactly twice the aggregate profit
\* (and no aggregate where the single quantity has none).
Doubles(once, twice) ==
    /\ once = Null <=> twice = Null
    /\ once # Null => Val(twice) = 2 * Val(once)

C15_AggregateLinearInQuantity ==
    scale # Null =>
        /\ Doubles(Val(scale).once1.vividProfit, Val(scale).twice1.vividProfit)
        /\ Doubles(Val(scale).once1.stubhubProfit, Val(scale).twice1.stubhubProfit)
        /\ Doubles(Val(scale).once2.vividTotalProfit, Val(scale).twice2.vividTotalProfit)
        /\ Doubles(Val(scale).once2.stubhubTotalProfit,
                   Val(scale).twice2.stubhubTotalProfit)

C15_Witness ==
    /\ scale # Null
    /\ Val(scale).set.quantity = 4
    /\ Val(scale).once1.vividProfit = Some(Dollars(635))
    /\ Val(scale).twice1.vividProfit = Some(Dollars(1270))
    /\ Val(scale).twice2.vividTotalProfit = Some(Dollars(1270))

----------------------------------------------------------------------------
\* C16, as stated: every query hook that refreshes by itself refetches every
\* 5 minutes, so none goes 5 minutes without issuing a fetch.
FiveMinutes == 5 * Minute
C16_EveryHookPollsEveryFiveMinutes ==
    \A h \in Hooks : sinceFetch[h] < FiveMinutes

----------------------------------------------------------------------------
\* C17, as stated: in each row the two platforms' values are computed from
\* the same price, each with its own fee and from nothing of the other
\* platform, and each value of one platform is present exactly when the same
\* value of the other is.
C17_PlatformsIndependentAndTogether ==
    Loaded =>
        \A i \in Rows :
            LET r1 == sens1.rows[i]
                r2 == sens2.rows[i]
                p == Val(r1.price)
                Own(x, v) == x # Null => Val(x) = v
            IN  /\ r1.vividReceive = Null <=> r1.stubhubReceive = Null
                /\ r1.vividProfit = Null <=> r1.stubhubProfit = Null
                /\ r2.vividReceive = Null <=> r2.stubhubReceive = Null
                /\ r2.vividProfitPer = Null <=> r2.stubhubProfitPer = Null
                /\ r2.vividTotalProfit = Null <=> r2.stubhubTotalProfit = Null
                /\ Own(r1.vividReceive, TimesOneMinus(p, VIVID_FEE))
                /\ Own(r1.stubhubReceive, TimesOneMinus(p, STUBHUB_FEE))
                /\ Own(r1.vividProfit, ProfitAt(i, p, VIVID_FEE))
                /\ Own(r1.stubhubProfit, ProfitAt(i, p, STUBHUB_FEE))
                /\ Own(r2.vividReceive, TimesOneMinus(p, VIVID_FEE))
                /\ Own(r2.stubhubReceive, TimesOneMinus(p, STUBHUB_FEE))
                /\ Own(r2.vividTotalProfit, ProfitAt(i, p, VIVID_FEE))
                /\ Own(r2.stubhubTotalProfit, ProfitAt(i, p, STUBHUB_FEE))

----------------------------------------------------------------------------
\* C18, as stated: a Dashboard group's profit adds 0 for a set whose
\* vivid_you_receive is null and (vivid_you_receive - cost_per_ticket) *
\* quantity for every other set; the InventoryTable footer adds 0 for a null
\* expected_revenue or expected_profit and sums quantity and cost over all items.
IfNull(x, v) == IF x = Null THEN v ELSE Val(x)
C18_MissingValueAddsZero ==
    /\ \A g \in Groups :
         Group(g).groupProfit
           = SumOver(DOMAIN Group(g).sets,
                     [i \in DOMAIN Group(g).sets |->
                        LET set == Group(g).sets[i]
                        IN  IF set.vivid_you_receive = Null THEN 0
                            ELSE (Val(set.vivid_you_receive) - set.cost_per_ticket)
                                    * set.quantity])
    /\ inventory.totals # Null =>
         LET items == inventory.items
             Sum(Term(_)) == SumOver(DOMAIN items, [i \in DOMAIN items |-> Term(items[i])])
             Quantity(item) == item.quantity
             Cost(item) == item.total_cost
             Revenue(item) == IfNull(item.expected_revenue, 0)
             Profit(item) == IfNull(item.expected_profit, 0)
         IN  /\ Val(inventory.totals).quantity = Sum(Quantity)
             /\ Val(inventory.totals).cost = Sum(Cost)
             /\ Val(inventory.totals).revenue = Sum(Revenue)
             /\ Val(inventory.totals).profit = Sum(Profit)

----------------------------------------------------------------------------
\* the part of a price map entered under the names of the sets of d
Names(d) == IF d = Null THEN {} ELSE {Val(d).sets[i].set_name : i \in DOMAIN Val(d).sets}
Restrict(sp, d) == [k \in DOMAIN sp \cap Names(d) |-> sp[k]]

\* C19: a refetch keeps the entered prices, and what is shown after it is
\* computed from the latest sets and the prices entered under their names
\* alone: a price under a name the latest data lacks adds nothing to the
\* total cost or to a total profit.
C19_RefetchKeepsPricesAndUsesLatestSets ==
    [][data' # data =>
         /\ sellingPrices' = sellingPrices
         /\ sens1' = Render1(data', Restrict(sellingPrices, data'))
         /\ sens2' = Render2(data', Restrict(sellingPrices, data'))]_vars

\* after a refetch that dropped a priced set, the other set's price still counts
C19_Witness ==
    /\ Loaded
    /\ Len(Sets) = 1
    /\ Text(1) = <<"7", "0", "0">>
    /\ \E k \in DOMAIN sellingPrices \ Names(data) :
         Truthy(getPrice(sellingPrices, k))
    /\ sens1.totals.totalCost = Sets[1].cost_per_ticket * Sets[1].quantity
    /\ sens1.totals.totalVividProfit = ProfitAt(1, Dollars(700), VIVID_FEE)

----------------------------------------------------------------------------
\* C20, as stated: both versions of the page report the same total cost and
\* the same total Vivid and StubHub profit, whatever prices are entered.
C20_VersionsAgree ==
    Loaded =>
        /\ sens1.totals.totalCost = Totals2.totalCost
        /\ sens1.totals.totalVividProfit = Totals2.totalVividProfit
        /\ sens1.totals.totalStubHubProfit = Totals2.totalStubHubProfit

----------------------------------------------------------------------------
VividTotalProfit2(r) == r.vividTotalProfit
StubhubTotalProfit2(r) == r.stubhubTotalProfit

\* C21, as stated: on both versions of the calculator each platform's total
\* profit is the sum of the aggregate profits of the rows of its column, a
\* row showing the placeholder counting as 0, whatever prices were entered.
C21_TotalIsSumOfRowProfits ==
    Loaded =>
        /\ sens1.totals.totalVividProfit = SumPresent(sens1.rows, VividProfit1)
        /\ sens1.totals.totalStubHubProfit = SumPresent(sens1.rows, StubhubProfit1)
        /\ Totals2.totalVividProfit = SumPresent(sens2.rows, VividTotalProfit2)
        /\ Totals2.totalStubHubProfit = SumPresent(sens2.rows, StubhubTotalProfit2)

----------------------------------------------------------------------------
OtherNames(sp, setName) == DOMAIN sp \ {setName}

\* C22: an edit of one set's price field changes the entered price of that
\* set alone: the entered price of every other name is kept, the row (price,
\* net receive and profit) of every other set is the same on both versions of
\* the page, and the total cost is the same.
C22_EditChangesOnlyNamedSet ==
    [][(Loaded /\ data' = data /\ sellingPrices' # sellingPrices) =>
         \E i \in Rows :
            /\ \A k \in OtherNames(sellingPrices, Sets[i].set_name) :
                 k \in DOMAIN sellingPrices' /\ sellingPrices'[k] = sellingPrices[k]
            /\ OtherNames(sellingPrices', Sets[i].set_name)
                 = OtherNames(sellingPrices, Sets[i].set_name)
            /\ \A j \in Rows \ {i} :
                 /\ sens1'.rows[j] = sens1.rows[j]
                 /\ sens2'.rows[j] = sens2.rows[j]
            /\ sens1'.totals.totalCost = sens1.totals.totalCost
            /\ Val(sens2'.totals).totalCost = Totals2.totalCost]_vars

\* two sets are priced differently, so one was edited while the other was priced
C22_Witness ==
    /\ Loaded
    /\ Len(Sets) = 2
    /\ Text(1) = <<"7", "0", "0">>
    /\ Text(2) = <<"7", "7">>
    /\ sens1.rows[1].price = Some(Dollars(700))
    /\ sens1.rows[2].price = Some(Dollars(77))
    /\ sens2.rows[1].vividReceive # Null
    /\ sens2.rows[2].vividReceive # Null

----------------------------------------------------------------------------
ValidRows == {i \in PricedRows : Val(sens1.rows[i].price) >= 0}

\* C23, as stated: a platform's total profit is shown as the placeholder
\* exactly when no set has a valid entered price; with a valid price it is
\* shown as an amount, 0 included.
C23_PlaceholderIffNoValidPrice ==
    Loaded =>
        /\ Val(sens1.shown).totalVividProfit = <<"-">> <=> ValidRows = {}
        /\ Val(sens1.shown).totalStubHubProfit = <<"-">> <=> ValidRows = {}
        /\ Val(sens2.cards).totalVividProfit = <<"-">> <=> ValidRows = {}
        /\ Val(sens2.cards).totalStubHubProfit = <<"-">> <=> ValidRows = {}


----------------------------------------------------------------------------
GroupSets(g) == IF dash.groups[g] = Null THEN <<>> ELSE Group(g).sets
GroupsHolding(set) ==
    {g \in DOMAIN dash.groups : \E k \in DOMAIN GroupSets(g) : GroupSets(g)[k] = set}
NamesGAorPit(set) ==
    \/ includes(toUpperCase(set.section), <<"G", "A">>)
    \/ includes(toUpperCase(set.section), <<"P", "I", "T">>)

\* C24: the product groups partition the ticket sets: every set is in exactly
\* one of the three groups and the groups hold nothing else, a set whose
\* section names GA or PIT is in 'GA / Pit' even when it also names 200, and
\* the group quantities sum to the number of tickets and the group costs to
\* the total cost of all sets.
C24_GroupsPartitionSets ==
    Loaded =>
        /\ DOMAIN dash.groups = 1..3
        /\ \A i \in Rows : Cardinality(GroupsHolding(Sets[i])) = 1
        /\ SumOver(DOMAIN dash.groups, [g \in DOMAIN dash.groups |-> Len(GroupSets(g))])
             = Len(Sets)
        /\ \A g \in Groups : Group(g).groupName = GroupNames[g]
        /\ \A i \in Rows : NamesGAorPit(Sets[i]) => GroupsHolding(Sets[i]) = {1}
        /\ SumOver(Groups, [g \in Groups |-> Group(g).groupQty])
             = SumOver(Rows, [i \in Rows |-> Sets[i].quantity])
        /\ SumOver(Groups, [g \in Groups |-> Group(g).groupCost]) = AllCost

\* all three groups are shown, and the set naming GA and 200 is under GA / Pit
C24_Witness ==
    /\ Loaded
    /\ Groups = {1, 2, 3}
    /\ \E i \in Rows : Sets[i] \in TicketSets(SetF, Null, Null)
    /\ GroupSets(1)[1].set_name = "F"
    /\ Group(1).groupQty + Group(2).groupQty + Group(3).groupQty
         = SumOver(Rows, [i \in Rows |-> Sets[i].quantity])
    /\ Group(1).groupCost + Group(2).groupCost + Group(3).groupCost = AllCost

----------------------------------------------------------------------------
KnownDate(set) == set.date \in DOMAIN dateOrder

\* C25: within each product group the sets are in non-decreasing date rank,
\* every set whose date the date table lacks comes after every set with a
\* known date, and the main per-set table still lists the sets in the order
\* of data.sets.
C25_GroupsSortedDataOrderKept ==
    Loaded =>
        /\ \A g \in Groups : \A i, j \in DOMAIN GroupSets(g) :
             i < j =>
                /\ DateKey(GroupSets(g)[i].date) <= DateKey(GroupSets(g)[j].date)
                /\ ~(~KnownDate(GroupSets(g)[i]) /\ KnownDate(GroupSets(g)[j]))
        /\ DOMAIN dash.rows = Rows
        /\ \A i \in Rows : dash.rows[i].set_name = Sets[i].set_name

\* data.sets lists an undated set, then two dated ones latest first; the group
\* lists them earliest first with the undated set last
C25_Witness ==
    /\ Loaded
    /\ Len(Sets) = 3
    /\ <<Sets[1].set_name, Sets[2].set_name, Sets[3].set_name>> = <<"F", "D", "B">>
    /\ Len(GroupSets(1)) = 3
    /\ <<GroupSets(1)[1].set_name, GroupSets(1)[2].set_name, GroupSets(1)[3].set_name>>
         = <<"B", "D", "F">>
    /\ <<dash.rows[1].set_name, dash.rows[2].set_name, dash.rows[3].set_name>>
         = <<"F", "D", "B">>

----------------------------------------------------------------------------
Snapshots == IF history = Null THEN <<>> ELSE Val(history).snapshots
StampsOf == {Snapshots[i].timestamp : i \in DOMAIN Snapshots}
\* the p-th timestamp in ascending order
StampAt(p) ==
    CHOOSE t \in StampsOf : Cardinality({u \in StampsOf : StringLess(u, t)}) = p - 1
SnapshotsAt(t, n) ==
    {i \in DOMAIN Snapshots : Snapshots[i].timestamp = t /\ Snapshots[i].set_name = n}
NamesAt(t) == {n \in SetNames : SnapshotsAt(t, n) # {}}
First(S) == CHOOSE i \in S : \A j \in S : i <= j

\* C26: the price-chart data has one point per distinct snapshot timestamp,
\* in ascending timestamp order; the keys of a point besides its time label
\* are the names of the sets with a snapshot at its timestamp, and the value
\* under a name is the avg_lowest_2 of the first snapshot of that set with
\* that timestamp in the input order.
C26_OnePointPerTimestamp ==
    /\ Len(priceChart) = Cardinality(StampsOf)
    /\ \A p \in DOMAIN priceChart :
         LET t == StampAt(p)
             point == priceChart[p]
         IN  /\ point["time"] = formatTime(t)
             /\ DOMAIN point \ {"time"} = NamesAt(t)
             /\ \A n \in NamesAt(t) :
                  point[n] = Snapshots[First(SnapshotsAt(t, n))].avg_lowest_2

\* two snapshots of Set A share the later timestamp and differ in price, Set B
\* has a snapshot with no price at the earlier one only, served last
C26_Witness ==
    /\ Snapshots =
         << [timestamp |-> <<"7", "0">>, set_name |-> "Set A",
             avg_lowest_2 |-> Some(Dollars(100))],
            [timestamp |-> <<"7", "0">>, set_name |-> "Set A",
             avg_lowest_2 |-> Some(Dollars(200))],
            [timestamp |-> <<"0", "0">>, set_name |-> "Set B", avg_lowest_2 |-> Null] >>
    /\ priceChart =
         << SetKey([time |-> <<"0">>], "Set B", Null),
            SetKey([time |-> <<"7">>], "Set A", Some(Dollars(100))) >>

----------------------------------------------------------------------------
Refetches == {"refetchHistory", "refetchProfit"}
At(event, click) == {p \in DOMAIN snapshotLog : snapshotLog[p] = Event(event, click)}

\* C27: a click on Take Snapshot calls the history refetch and the
\* profit-over-time refetch only after its own POST has succeeded, and then
\* calls both; a click whose POST failed calls neither, and no refetch of a
\* click comes before its POST has resolved.
C27_RefetchOnlyAfterPostSucceeds ==
    \A click \in Clicks(snapshotLog) :
        /\ \A r \in Refetches : \A p \in At(r, click) :
             /\ \E q \in At("resolved", click) : q < p
             /\ \E q \in At("post", click) : q < p
        /\ At("rejected", click) # {} =>
             At("refetchHistory", click) = {} /\ At("refetchProfit", click) = {}
        /\ \A q \in At("resolved", click) :
             /\ At("refetchHistory", click) = {q + 1}
             /\ At("refetchProfit", click) = {q + 2}

\* the second click's POST succeeded and refetched while the first was still
\* pending; the first then failed and refetched nothing
C27_Witness ==
    snapshotLog = <<Event("post", 1), Event("post", 2), Event("resolved", 2),
                    Event("refetchHistory", 2), Event("refetchProfit", 2),
                    Event("rejected", 1)>>

----------------------------------------------------------------------------
\* C28: the hooks with an optional id never call their fetch function while
\* the id is undefined or 0: every request a step sends carries the id its
\* hook is rendered with, and that id is defined and not 0.
C28_DisabledWithoutId ==
    [][\A p \in DOMAIN sent' \ DOMAIN sent :
          /\ sent'[p].hook \in IdHooks
          /\ sent'[p].id = hookId'[sent'[p].hook]
          /\ sent'[p].id # Null
          /\ Val(sent'[p].id) # 0]_vars

\* one hook was given id 0 and another stayed without an id, and neither has
\* fetched; a third was given id 1 and fetched at once and again on its interval
C28_Witness ==
    /\ hookId["usePriceHistory"] = Some(0)
    /\ hookId["useComparableListings"] = Null
    /\ hookId["useCurrentListings"] = Some(1)
    /\ sent = <<Request("useCurrentListings", Some(1)),
                Request("useCurrentListings", Some(1))>>

====
